---- MODULE Spec2Model ----
(***************************************************************************)
(* TrueReach e-mail validation engine (lib/email-validation): the pure     *)
(* checks, the three simulated probes, the scoring function, the status    *)
(* classifier and the validateEmail orchestrator.                          *)
(*                                                                         *)
(* A JavaScript string is a sequence of one-character strings, so that     *)
(* split, toLowerCase, startsWith and the regular expressions are computed *)
(* character by character as the code computes them.                       *)
(***************************************************************************)
EXTENDS Integers, Sequences, FiniteSets, TLC

VARIABLES
  email,        \* the argument of the running validateEmail call
  pc,           \* position in validateEmail (or "call"/"return" of a pure function)
  syntax,       \* const syntax       (line 170)
  domain,       \* const domain       (line 187)
  domainValid,  \* const domainValid  (line 188)
  mx,           \* const mx           (line 189)
  disposable,   \* const disposable   (line 190)
  roleBased,    \* const roleBased    (line 191)
  catchAll,     \* const catchAll     (line 192)
  smtp,         \* const smtp         (line 193)
  score,        \* const score        (line 205)
  status,       \* const status       (line 206)
  result,       \* the value validateEmail returns
  calls,        \* history: the probes invoked so far, in order
  steps,        \* history: the statements executed so far, in order
  arg,          \* argument of a pure function applied on its own
  ret,          \* its return value
  uploadedFile,       \* bulk page: useState uploadedFile
  isValidating,       \* bulk page: useState isValidating
  validationProgress, \* bulk page: useState validationProgress
  results,            \* bulk page: useState results
  bulkResults,        \* validateEmails: const validationResults (the array)
  loopI,              \* validateEmails: loop index i (0-based)
  bpc,                \* position in validateEmails
  failed,       \* history: the indices whose validateEmail call rejected
  first,        \* the result of an earlier validateEmail call on the same address
  probe,        \* the fixed answers of deterministic probes
  other,        \* the locals of a second validateEmail activation, suspended
  pageEmail,        \* validate page: useState email
  pageIsValidating, \* validate page: useState isValidating
  pageResult,       \* validate page: useState result
  layerI,           \* validateEmailAddress: loop index i (0-based)
  ppc               \* position in validateEmailAddress

\* the state of the bulk page and of its validateEmails handler
bulkVars ==
  <<uploadedFile, isValidating, validationProgress, results, bulkResults,
    loopI, bpc, failed>>

\* the state of the single-address validate page and of its
\* validateEmailAddress handler
validateVars == <<pageEmail, pageIsValidating, pageResult, layerI, ppc>>

\* the state of the callers of validateEmail
callerVars == <<bulkVars, first, probe, other, validateVars>>

vars == <<email, pc, syntax, domain, domainValid, mx, disposable, roleBased,
          catchAll, smtp, score, status, result, calls, steps, arg, ret,
          callerVars>>

----------------------------------------------------------------------------
(* Characters and JavaScript string primitives                             *)

UpperLetters ==
  <<"A","B","C","D","E","F","G","H","I","J","K","L","M",
    "N","O","P","Q","R","S","T","U","V","W","X","Y","Z">>

LowerLetters ==
  <<"a","b","c","d","e","f","g","h","i","j","k","l","m",
    "n","o","p","q","r","s","t","u","v","w","x","y","z">>

Digits == {"0","1","2","3","4","5","6","7","8","9"}

Range(f) == {f[i] : i \in DOMAIN f}

IsUpper(c) == c \in Range(UpperLetters)
IsLower(c) == c \in Range(LowerLetters)
IsAlpha(c) == IsUpper(c) \/ IsLower(c)
IsAlnum(c) == IsAlpha(c) \/ c \in Digits

\* String.prototype.toLowerCase on one character
ToLowerChar(c) ==
  IF IsUpper(c)
    THEN LowerLetters[CHOOSE i \in DOMAIN UpperLetters : UpperLetters[i] = c]
    ELSE c

\* String.prototype.toLowerCase
toLowerCase(s) == [i \in 1..Len(s) |-> ToLowerChar(s[i])]

\* String.prototype.includes for a one-character needle
includes(s, c) == \E i \in 1..Len(s) : s[i] = c

\* String.prototype.indexOf for a one-character needle, 1-based, 0 when absent
IndexOf(s, c) ==
  IF includes(s, c)
    THEN CHOOSE i \in 1..Len(s) : s[i] = c /\ \A j \in 1..(i - 1) : s[j] # c
    ELSE 0

\* String.prototype.split on a one-character separator
RECURSIVE split(_, _)
split(s, sep) ==
  LET i == IndexOf(s, sep)
  IN  IF i = 0
        THEN <<s>>
        ELSE <<SubSeq(s, 1, i - 1)>> \o split(SubSeq(s, i + 1, Len(s)), sep)

\* The value of an out-of-range array index
Undefined == <<"undefined">>

\* parts[k] with JavaScript's 0-based index
At(parts, k) == IF k + 1 <= Len(parts) THEN parts[k + 1] ELSE Undefined

\* !s for a string or undefined
Falsy(s) == s = Undefined \/ s = <<>>

\* String.prototype.startsWith
startsWith(s, p) == Len(p) <= Len(s) /\ SubSeq(s, 1, Len(p)) = p

\* Array.prototype.includes
ListIncludes(list, x) == \E i \in DOMAIN list : list[i] = x

----------------------------------------------------------------------------
(* Static lists                                                            *)

disposableDomains ==
  <<
    <<"1","0","m","i","n","u","t","e","m","a","i","l",".","c","o","m">>,
    <<"g","u","e","r","r","i","l","l","a","m","a","i","l",".","c","o","m">>,
    <<"m","a","i","l","i","n","a","t","o","r",".","c","o","m">>,
    <<"t","e","m","p","m","a","i","l",".","o","r","g">>,
    <<"t","h","r","o","w","a","w","a","y",".","e","m","a","i","l">>,
    <<"t","e","m","p","-","m","a","i","l",".","o","r","g">>,
    <<"y","o","p","m","a","i","l",".","c","o","m">>,
    <<"m","a","i","l","d","r","o","p",".","c","c">>,
    <<"s","h","a","r","k","l","a","s","e","r","s",".","c","o","m">>,
    <<"g","u","e","r","r","i","l","l","a","m","a","i","l","b","l","o","c","k",".","c","o","m">>,
    <<"p","o","k","e","m","a","i","l",".","n","e","t">>,
    <<"s","p","a","m","4",".","m","e">>,
    <<"t","e","m","p","a","i","l",".","c","o","m">>,
    <<"t","e","m","p","m","a","i","l","a","d","d","r","e","s","s",".","c","o","m">>,
    <<"e","m","a","i","l","o","n","d","e","c","k",".","c","o","m">>,
    <<"m","o","h","m","a","l",".","c","o","m">>,
    <<"m","y","t","r","a","s","h","m","a","i","l",".","c","o","m">>,
    <<"m","a","i","l","n","e","s","i","a",".","c","o","m">>,
    <<"t","r","a","s","h","m","a","i","l",".","c","o","m">>,
    <<"d","i","s","p","o","s","t","a","b","l","e",".","c","o","m">>
  >>

roleBasedPrefixes ==
  <<
    <<"a","d","m","i","n">>,
    <<"a","d","m","i","n","i","s","t","r","a","t","o","r">>,
    <<"i","n","f","o">>,
    <<"s","u","p","p","o","r","t">>,
    <<"s","a","l","e","s">>,
    <<"c","o","n","t","a","c","t">>,
    <<"h","e","l","p">>,
    <<"n","o","r","e","p","l","y">>,
    <<"n","o","-","r","e","p","l","y">>,
    <<"w","e","b","m","a","s","t","e","r">>,
    <<"p","o","s","t","m","a","s","t","e","r">>,
    <<"h","o","s","t","m","a","s","t","e","r">>,
    <<"a","b","u","s","e">>,
    <<"s","e","c","u","r","i","t","y">>,
    <<"p","r","i","v","a","c","y">>,
    <<"l","e","g","a","l">>,
    <<"b","i","l","l","i","n","g">>,
    <<"a","c","c","o","u","n","t","s">>,
    <<"m","a","r","k","e","t","i","n","g">>,
    <<"h","r">>,
    <<"c","a","r","e","e","r","s">>,
    <<"j","o","b","s">>,
    <<"r","e","c","r","u","i","t","m","e","n","t">>,
    <<"p","r","e","s","s">>,
    <<"m","e","d","i","a">>,
    <<"n","e","w","s">>
  >>

commonDomains ==
  <<
    <<"g","m","a","i","l",".","c","o","m">>,
    <<"y","a","h","o","o",".","c","o","m">>,
    <<"h","o","t","m","a","i","l",".","c","o","m">>,
    <<"o","u","t","l","o","o","k",".","c","o","m">>,
    <<"a","o","l",".","c","o","m">>,
    <<"i","c","l","o","u","d",".","c","o","m">>,
    <<"p","r","o","t","o","n","m","a","i","l",".","c","o","m">>,
    <<"z","o","h","o",".","c","o","m">>,
    <<"m","a","i","l",".","c","o","m">>,
    <<"g","m","x",".","c","o","m">>
  >>

catchAllDomains ==
  <<
    <<"e","x","a","m","p","l","e",".","c","o","m">>,
    <<"t","e","s","t",".","c","o","m">>,
    <<"d","e","m","o",".","c","o","m">>
  >>

reliableProviders ==
  <<
    <<"g","m","a","i","l",".","c","o","m">>,
    <<"y","a","h","o","o",".","c","o","m">>,
    <<"h","o","t","m","a","i","l",".","c","o","m">>,
    <<"o","u","t","l","o","o","k",".","c","o","m">>,
    <<"a","o","l",".","c","o","m">>,
    <<"i","c","l","o","u","d",".","c","o","m">>,
    <<"p","r","o","t","o","n","m","a","i","l",".","c","o","m">>,
    <<"z","o","h","o",".","c","o","m">>
  >>

----------------------------------------------------------------------------
\* Syntax check: emailSchema = z.string().email(), i.e. zod's e-mail pattern,
\* matched case-insensitively:
\*   ^ (?!\.) (?!.*\.\.) ( [A-Z0-9_'+\-\.]* ) [A-Z0-9_+-] @
\*     ( [A-Z0-9] [A-Z0-9\-]* \. )+ [A-Z]{2,} $

ZodLocalChar(c) == IsAlnum(c) \/ c \in {"_", "'", "+", "-", "."}

ZodLocalLast(c) == IsAlnum(c) \/ c \in {"_", "+", "-"}

ZodLabel(l) ==
  /\ Len(l) >= 1
  /\ IsAlnum(l[1])
  /\ \A i \in 1..Len(l) : IsAlnum(l[i]) \/ l[i] = "-"

ZodTld(l) == Len(l) >= 2 /\ \A i \in 1..Len(l) : IsAlpha(l[i])

HasDoubleDot(s) == \E i \in 1..(Len(s) - 1) : s[i] = "." /\ s[i + 1] = "."

\* emailSchema without the top-level label: one bare label is a domain
emailSchema_NoTld(s) ==
  LET parts  == split(s, "@")
      local  == parts[1]
      labels == split(parts[2], ".")
  IN  /\ Len(parts) = 2
      /\ Len(local) >= 1
      /\ local[1] # "."
      /\ ~HasDoubleDot(s)
      /\ \A i \in 1..Len(local) : ZodLocalChar(local[i])
      /\ ZodLocalLast(local[Len(local)])
      /\ \A i \in 1..Len(labels) : ZodLabel(labels[i])

\* emailSchema that cuts at the last '@' and lets the local part hold '@'
emailSchema_LastAt(s) ==
  LET parts  == split(s, "@")
      n      == Len(parts)
      local  == SubSeq(s, 1, Len(s) - Len(parts[n]) - 1)
      labels == split(parts[n], ".")
  IN  /\ n >= 2
      /\ Len(local) >= 1
      /\ local[1] # "."
      /\ ~HasDoubleDot(s)
      /\ \A i \in 1..Len(local) : ZodLocalChar(local[i]) \/ local[i] = "@"
      /\ ZodLocalLast(local[Len(local)])
      /\ Len(labels) >= 2
      /\ \A i \in 1..(Len(labels) - 1) : ZodLabel(labels[i])
      /\ ZodTld(labels[Len(labels)])

emailSchema(s) ==
  LET parts  == split(s, "@")
      local  == parts[1]
      labels == split(parts[2], ".")
  IN  /\ Len(parts) = 2
      /\ Len(local) >= 1
      /\ local[1] # "."
      /\ ~HasDoubleDot(s)
      /\ \A i \in 1..Len(local) : ZodLocalChar(local[i])
      /\ ZodLocalLast(local[Len(local)])
      /\ Len(labels) >= 2
      /\ \A i \in 1..(Len(labels) - 1) : ZodLabel(labels[i])
      /\ ZodTld(labels[Len(labels)])

\* emailSchema.parse(email) returns for a match and throws a ZodError otherwise
parseThrows(s) == ~emailSchema(s)

\* validateEmailSyntax without the try/catch: the ZodError escapes
validateEmailSyntaxOutcome_NoCatch(s) ==
  IF parseThrows(s) THEN [threw |-> TRUE, value |-> FALSE]
  ELSE [threw |-> FALSE, value |-> TRUE]

\* try { emailSchema.parse(email); return true } catch { return false }
\* as an outcome: the value returned, and whether an exception escaped
validateEmailSyntaxOutcome(s) ==
  IF parseThrows(s) THEN [threw |-> FALSE, value |-> FALSE]
  ELSE [threw |-> FALSE, value |-> TRUE]

validateEmailSyntax(s) == validateEmailSyntaxOutcome(s).value

----------------------------------------------------------------------------
(* Domain structural check                                                 *)

\* {0,61} between the first and the last character of a label
MaxLabelInner == 61

\* [a-zA-Z0-9]([a-zA-Z0-9-]{0,61}[a-zA-Z0-9])?
DomainLabel(l) ==
  /\ Len(l) >= 1
  /\ IsAlnum(l[1])
  /\ Len(l) >= 2 =>
       /\ Len(l) - 2 <= MaxLabelInner
       /\ IsAlnum(l[Len(l)])
       /\ \A i \in 2..(Len(l) - 1) : IsAlnum(l[i]) \/ l[i] = "-"

\* ^label(\.label)*$
domainRegex(d) ==
  LET labels == split(d, ".")
  IN  \A i \in 1..Len(labels) : DomainLabel(labels[i])

\* validateDomain that takes the last '@'-segment and skips the includes test
validateDomain_LastSegment(s) ==
  LET segs == split(s, "@")
      d    == segs[Len(segs)]
  IN  IF Falsy(d) THEN FALSE
      ELSE IF ~domainRegex(d) THEN FALSE
      ELSE LET parts == split(d, ".")
               tld   == parts[Len(parts)]
           IN  Len(tld) >= 2 /\ \A i \in 1..Len(tld) : IsAlpha(tld[i])

validateDomain(s) ==
  IF ~includes(s, "@") THEN FALSE
  ELSE LET d == At(split(s, "@"), 1)
       IN  IF Falsy(d) THEN FALSE
           ELSE IF ~domainRegex(d) THEN FALSE
           ELSE LET parts == split(d, ".")
                    tld   == parts[Len(parts)]
                IN  Len(tld) >= 2 /\ \A i \in 1..Len(tld) : IsAlpha(tld[i])

\* the local-part class of RFC5322_EMAIL_REGEX: letters, digits and the
\* punctuation listed; the grave accent is written "grave"
RfcLocalChar(c) ==
  IsAlnum(c) \/ c \in {".", "!", "#", "$", "%", "&", "'", "*", "+", "/",
                       "=", "?", "^", "_", "grave", "{", "|", "}", "~", "-"}

\* RFC5322_EMAIL_REGEX.test(s); the constant is exported and never used
RFC5322_EMAIL_REGEX(s) ==
  LET parts == split(s, "@")
  IN  /\ Len(parts) = 2
      /\ Len(parts[1]) >= 1
      /\ \A i \in 1..Len(parts[1]) : RfcLocalChar(parts[1][i])
      /\ domainRegex(parts[2])

----------------------------------------------------------------------------
(* Detectors                                                               *)

\* isDisposableEmail without toLowerCase
isDisposableEmail_NoLower(s) ==
  LET d == At(split(s, "@"), 1)
  IN  IF Falsy(d) THEN FALSE
      ELSE ListIncludes(disposableDomains, d)

isDisposableEmail(s) ==
  LET raw == At(split(s, "@"), 1)
      d   == IF raw = Undefined THEN Undefined ELSE toLowerCase(raw)
  IN  IF Falsy(d) THEN FALSE
      ELSE ListIncludes(disposableDomains, d)

\* isRoleBasedEmail matching any local part that merely starts with a prefix
isRoleBasedEmail_AnyPrefix(s) ==
  LET localPart == toLowerCase(At(split(s, "@"), 0))
  IN  IF Falsy(localPart) THEN FALSE
      ELSE \E i \in DOMAIN roleBasedPrefixes :
             startsWith(localPart, roleBasedPrefixes[i])

\* isRoleBasedEmail without toLowerCase
isRoleBasedEmail_NoLower(s) ==
  LET localPart == At(split(s, "@"), 0)
  IN  IF Falsy(localPart) THEN FALSE
      ELSE \E i \in DOMAIN roleBasedPrefixes :
             LET prefix == roleBasedPrefixes[i]
             IN  \/ localPart = prefix
                 \/ startsWith(localPart, prefix \o <<".">>)
                 \/ startsWith(localPart, prefix \o <<"-">>)

isRoleBasedEmail(s) ==
  LET localPart == toLowerCase(At(split(s, "@"), 0))
  IN  IF Falsy(localPart) THEN FALSE
      ELSE \E i \in DOMAIN roleBasedPrefixes :
             LET prefix == roleBasedPrefixes[i]
             IN  \/ localPart = prefix
                 \/ startsWith(localPart, prefix \o <<".">>)
                 \/ startsWith(localPart, prefix \o <<"-">>)

----------------------------------------------------------------------------
(* Simulated probes. Math.random() is a free choice, so each probe is the  *)
(* set of answers it can give.                                             *)

simulateMXCheck(d) ==
  IF ListIncludes(commonDomains, toLowerCase(d)) THEN {TRUE} ELSE BOOLEAN

simulateCatchAllDetection(d) ==
  IF ListIncludes(catchAllDomains, toLowerCase(d)) THEN {TRUE} ELSE BOOLEAN

simulateSMTPCheck(s) ==
  LET raw == At(split(s, "@"), 1)
      d   == IF raw = Undefined THEN Undefined ELSE toLowerCase(raw)
  IN  IF Falsy(d) THEN {FALSE}
      ELSE IF ListIncludes(reliableProviders, d) THEN BOOLEAN
      ELSE BOOLEAN

----------------------------------------------------------------------------
(* Scoring engine and status classifier                                    *)

\* weights with the sign of the disposable contribution lost
weights_DisposablePositive ==
  [syntax |-> 20, domain |-> 15, mx |-> 15, disposable |-> 10,
   roleBased |-> -5, catchAll |-> -5, smtp |-> 25]

weights ==
  [syntax |-> 20, domain |-> 15, mx |-> 15, disposable |-> -10,
   roleBased |-> -5, catchAll |-> -5, smtp |-> 25]

\* the upper limit of Math.min(100, ...)
MaxScore == 100

\* Math.round(n / d) for d > 0: the nearest integer, halves towards +infinity
MathRound(n, d) == (2 * n + d) \div (2 * d)

\* the accumulation of lines 144-152
RawScore(v) ==
  LET s0 == 0
      s1 == IF v.syntax     THEN s0 + weights.syntax     ELSE s0
      s2 == IF v.domain     THEN s1 + weights.domain     ELSE s1
      s3 == IF v.mx         THEN s2 + weights.mx         ELSE s2
      s4 == IF v.disposable THEN s3 + weights.disposable ELSE s3
      s5 == IF v.roleBased  THEN s4 + weights.roleBased  ELSE s4
      s6 == IF v.catchAll   THEN s5 + weights.catchAll   ELSE s5
      s7 == IF v.smtp       THEN s6 + weights.smtp       ELSE s6
  IN  s7

\* calculateEmailScore with Math.floor in place of Math.round
calculateEmailScore_Floor(v) ==
  LET maxPossibleScore == weights.syntax + weights.domain + weights.mx + weights.smtp
      num     == RawScore(v) * 100
      den     == maxPossibleScore
      minNum  == IF num > MaxScore * den THEN MaxScore * den ELSE num
      normNum == IF minNum < 0 THEN 0 ELSE minNum
  IN  normNum \div den

\* calculateEmailScore without Math.max(0, ...)
calculateEmailScore_NoMax(v) ==
  LET maxPossibleScore == weights.syntax + weights.domain + weights.mx + weights.smtp
      num     == RawScore(v) * 100
      den     == maxPossibleScore
      minNum  == IF num > MaxScore * den THEN MaxScore * den ELSE num
  IN  MathRound(minNum, den)

\* calculateEmailScore without the division by maxPossibleScore
calculateEmailScore_NoNormalize(v) ==
  LET num     == RawScore(v)
      minNum  == IF num > MaxScore THEN MaxScore ELSE num
      normNum == IF minNum < 0 THEN 0 ELSE minNum
  IN  normNum

\* (score / maxPossibleScore) * 100 is the rational num / den; Math.min and
\* Math.max act on it, Math.round on the outcome.
calculateEmailScore(v) ==
  LET maxPossibleScore == weights.syntax + weights.domain + weights.mx + weights.smtp
      num     == RawScore(v) * 100
      den     == maxPossibleScore
      minNum  == IF num > MaxScore * den THEN MaxScore * den ELSE num
      normNum == IF minNum < 0 THEN 0 ELSE minNum
  IN  MathRound(normNum, den)

\* getEmailStatus with > 75 in place of >= 75
getEmailStatus_Strict(s) ==
  IF s > 75 THEN "valid"
  ELSE IF s >= 40 THEN "risky"
  ELSE "invalid"

getEmailStatus(s) ==
  IF s >= 75 THEN "valid"
  ELSE IF s >= 40 THEN "risky"
  ELSE "invalid"

----------------------------------------------------------------------------
(* Inputs                                                                  *)

\* longest string of the exhaustive part of the input set
MaxLen == 6

Alphabet == {"a", "@", ".", "-"}

ShortStrings == UNION {[1..n -> Alphabet] : n \in 0..MaxLen}

SampleLocals ==
  {
    <<"u","s","e","r">>,
    <<"a","d","m","i","n">>,
    <<"A","d","m","i","n">>,
    <<"a","d","m","i","n","i","s","t","r","a","t","o","r">>,
    <<"a","d","m","i","n",".","t","e","a","m">>,
    <<"a","d","m","i","n","-","b","o","t">>,
    <<"a","d","m","i","n","x">>,
    <<"I","N","F","O">>,
    <<".","u","s","e","r">>
  }

SampleDomains ==
  Range(disposableDomains) \cup Range(commonDomains) \cup Range(catchAllDomains) \cup
  {
    <<"x",".","c","o","m">>,
    <<"M","A","I","L","I","N","A","T","O","R",".","C","O","M">>,
    <<"G","m","a","i","l",".","C","o","m">>,
    <<"b","-",".","c","o","m">>,
    <<"a","-",".","a","a">>,
    <<"l","o","c","a","l","h","o","s","t">>,
    <<"x",".","c","1">>
  }

Malformed ==
  {
    <<"n","o","-","a","t","-","s","i","g","n">>,
    <<"@","@","d","o","u","b","l","e",".","c","o","m">>,
    <<"a","@","b","@","m","a","i","l","i","n","a","t","o","r",".","c","o","m">>,
    <<"a","@","b",".","c","o","m","@","c">>,
    <<"a","d","m","i","n">>,
    <<"u","s","e","r","@">>,
    <<"a","d","m","i","n","@">>
  }

Emails ==
  ShortStrings \cup Malformed \cup
  {l \o <<"@">> \o d : l \in SampleLocals, d \in SampleDomains}

----------------------------------------------------------------------------
(* validateEmail, one statement per step                                   *)

NoResult ==
  [email |-> <<>>, syntax |-> FALSE, domain |-> FALSE, mx |-> FALSE,
   disposable |-> FALSE, roleBased |-> FALSE, catchAll |-> FALSE,
   smtp |-> FALSE, score |-> 0, status |-> "pending"]

\* no file uploaded (useState(null))
NoFile == [present |-> FALSE, emails |-> <<>>]

NoProbe == [mx |-> FALSE, catchAll |-> FALSE, smtp |-> FALSE]

\* no second activation of validateEmail
NoFrame ==
  [email |-> <<>>, pc |-> "none", syntax |-> FALSE, domain |-> Undefined,
   domainValid |-> FALSE, mx |-> FALSE, disposable |-> FALSE,
   roleBased |-> FALSE, catchAll |-> FALSE, smtp |-> FALSE, score |-> 0,
   status |-> "", result |-> NoResult, calls |-> <<>>, steps |-> <<>>]

\* the validate page as mounted: useState(''), useState(false), useState(null)
PageIdle ==
  /\ pageEmail = <<>>
  /\ pageIsValidating = FALSE
  /\ pageResult = NoResult
  /\ layerI = 0
  /\ ppc = "idle"

\* the bulk page as mounted, no earlier call, no fixed probe answers
CallersIdle ==
  /\ uploadedFile = NoFile
  /\ isValidating = FALSE
  /\ validationProgress = 0
  /\ results = <<>>
  /\ bulkResults = <<>>
  /\ loopI = 0
  /\ bpc = "idle"
  /\ failed = {}
  /\ first = NoResult
  /\ probe = NoProbe
  /\ other = NoFrame
  /\ PageIdle

Init ==
  /\ email \in Emails
  /\ pc = "syntax"
  /\ syntax = FALSE
  /\ domain = Undefined
  /\ domainValid = FALSE
  /\ mx = FALSE
  /\ disposable = FALSE
  /\ roleBased = FALSE
  /\ catchAll = FALSE
  /\ smtp = FALSE
  /\ score = 0
  /\ status = ""
  /\ result = NoResult
  /\ calls = <<>>
  /\ steps = <<>>
  /\ arg = 0
  /\ ret = 0
  /\ CallersIdle

\* Succ with the mailbox probe moved in front of the MX probe
Succ_SmtpFirst(p) ==
  CASE p = "domain"     -> "smtp"
    [] p = "smtp"       -> "mx"
    [] p = "mx"         -> "disposable"
    [] p = "disposable" -> "roleBased"
    [] p = "roleBased"  -> "catchAll"
    [] p = "catchAll"   -> "score"
    [] p = "score"      -> "return"
    [] p = "return"     -> "done"

\* the statement that follows statement p on the full path (lines 187-213)
Succ(p) ==
  CASE p = "domain"     -> "mx"
    [] p = "mx"         -> "disposable"
    [] p = "disposable" -> "roleBased"
    [] p = "roleBased"  -> "catchAll"
    [] p = "catchAll"   -> "smtp"
    [] p = "smtp"       -> "score"
    [] p = "score"      -> "return"
    [] p = "return"     -> "done"

\* StepSyntax without the early return: a failed syntax check falls through
StepSyntax_FallThrough ==
  /\ pc = "syntax"
  /\ syntax' = validateEmailSyntax(email)
  /\ steps' = Append(steps, "syntax")
  /\ pc' = IF validateEmailSyntaxOutcome(email).threw THEN "rejected" ELSE "domain"
  /\ UNCHANGED <<email, domain, domainValid, mx, disposable, roleBased, catchAll,
                 smtp, score, status, result, calls, arg, ret, callerVars>>

\* lines 170-185: the syntax check and the short-circuit return
StepSyntax ==
  /\ pc = "syntax"
  /\ syntax' = validateEmailSyntax(email)
  /\ steps' = Append(steps, "syntax")
  /\ IF validateEmailSyntaxOutcome(email).threw
       THEN \* an exception out of line 170 rejects the promise
            /\ pc' = "rejected"
            /\ UNCHANGED result
       ELSE IF ~syntax'
       THEN /\ result' = [email |-> email, syntax |-> FALSE, domain |-> FALSE,
                          mx |-> FALSE, disposable |-> FALSE, roleBased |-> FALSE,
                          catchAll |-> FALSE, smtp |-> FALSE, score |-> 0,
                          status |-> "invalid"]
            /\ pc' = "done"
       ELSE /\ pc' = "domain"
            /\ UNCHANGED result
  /\ UNCHANGED <<email, domain, domainValid, mx, disposable, roleBased, catchAll,
                 smtp, score, status, calls, arg, ret, callerVars>>

\* lines 187-188
StepDomain ==
  /\ pc = "domain"
  /\ domain' = At(split(email, "@"), 1)
  /\ domainValid' = validateDomain(email)
  /\ steps' = Append(steps, "domain")
  /\ pc' = Succ(pc)
  /\ UNCHANGED <<email, syntax, mx, disposable, roleBased, catchAll, smtp, score,
                 status, result, calls, arg, ret, callerVars>>

\* StepMX with the domainValid condition dropped
StepMX_Ungated ==
  /\ pc = "mx"
  /\ mx' \in simulateMXCheck(IF domain = Undefined THEN <<>> ELSE domain)
  /\ calls' = Append(calls, "simulateMXCheck")
  /\ steps' = Append(steps, "mx")
  /\ pc' = Succ(pc)
  /\ UNCHANGED <<email, syntax, domain, domainValid, disposable, roleBased,
                 catchAll, smtp, score, status, result, arg, ret, callerVars>>

\* line 189
StepMX ==
  /\ pc = "mx"
  /\ IF domainValid
       THEN /\ mx' \in simulateMXCheck(domain)
            /\ calls' = Append(calls, "simulateMXCheck")
       ELSE /\ mx' = FALSE
            /\ UNCHANGED calls
  /\ steps' = Append(steps, "mx")
  /\ pc' = Succ(pc)
  /\ UNCHANGED <<email, syntax, domain, domainValid, disposable, roleBased,
                 catchAll, smtp, score, status, result, arg, ret, callerVars>>

\* line 190
StepDisposable ==
  /\ pc = "disposable"
  /\ disposable' = isDisposableEmail(email)
  /\ steps' = Append(steps, "disposable")
  /\ pc' = Succ(pc)
  /\ UNCHANGED <<email, syntax, domain, domainValid, mx, roleBased, catchAll,
                 smtp, score, status, result, calls, arg, ret, callerVars>>

\* line 191
StepRoleBased ==
  /\ pc = "roleBased"
  /\ roleBased' = isRoleBasedEmail(email)
  /\ steps' = Append(steps, "roleBased")
  /\ pc' = Succ(pc)
  /\ UNCHANGED <<email, syntax, domain, domainValid, mx, disposable, catchAll,
                 smtp, score, status, result, calls, arg, ret, callerVars>>

\* line 192
StepCatchAll ==
  /\ pc = "catchAll"
  /\ IF domainValid
       THEN /\ catchAll' \in simulateCatchAllDetection(domain)
            /\ calls' = Append(calls, "simulateCatchAllDetection")
       ELSE /\ catchAll' = FALSE
            /\ UNCHANGED calls
  /\ steps' = Append(steps, "catchAll")
  /\ pc' = Succ(pc)
  /\ UNCHANGED <<email, syntax, domain, domainValid, mx, disposable, roleBased,
                 smtp, score, status, result, arg, ret, callerVars>>

\* StepSMTP with the condition reduced to mx
StepSMTP_MxOnly ==
  /\ pc = "smtp"
  /\ IF mx
       THEN /\ smtp' \in simulateSMTPCheck(email)
            /\ calls' = Append(calls, "simulateSMTPCheck")
       ELSE /\ smtp' = FALSE
            /\ UNCHANGED calls
  /\ steps' = Append(steps, "smtp")
  /\ pc' = Succ(pc)
  /\ UNCHANGED <<email, syntax, domain, domainValid, mx, disposable, roleBased,
                 catchAll, score, status, result, arg, ret, callerVars>>

\* StepSMTP that always asks the probe and gates only the value it keeps
StepSMTP_EagerProbe ==
  /\ pc = "smtp"
  /\ \E r \in simulateSMTPCheck(email) :
       smtp' = IF mx /\ ~disposable THEN r ELSE FALSE
  /\ calls' = Append(calls, "simulateSMTPCheck")
  /\ steps' = Append(steps, "smtp")
  /\ pc' = Succ(pc)
  /\ UNCHANGED <<email, syntax, domain, domainValid, mx, disposable, roleBased,
                 catchAll, score, status, result, arg, ret, callerVars>>

\* StepSMTP that does not probe again an address validated before
StepSMTP_SkipRepeat ==
  /\ pc = "smtp"
  /\ IF mx /\ ~disposable /\ first = NoResult
       THEN /\ smtp' \in simulateSMTPCheck(email)
            /\ calls' = Append(calls, "simulateSMTPCheck")
       ELSE /\ smtp' = FALSE
            /\ UNCHANGED calls
  /\ steps' = Append(steps, "smtp")
  /\ pc' = Succ(pc)
  /\ UNCHANGED <<email, syntax, domain, domainValid, mx, disposable, roleBased,
                 catchAll, score, status, result, arg, ret, callerVars>>

\* line 193
StepSMTP ==
  /\ pc = "smtp"
  /\ IF mx /\ ~disposable
       THEN /\ smtp' \in simulateSMTPCheck(email)
            /\ calls' = Append(calls, "simulateSMTPCheck")
       ELSE /\ smtp' = FALSE
            /\ UNCHANGED calls
  /\ steps' = Append(steps, "smtp")
  /\ pc' = Succ(pc)
  /\ UNCHANGED <<email, syntax, domain, domainValid, mx, disposable, roleBased,
                 catchAll, score, status, result, arg, ret, callerVars>>

\* line 189 when the MX probe throws: nothing catches it, the promise rejects
StepMXThrows ==
  /\ pc = "mx"
  /\ domainValid
  /\ calls' = Append(calls, "simulateMXCheck")
  /\ steps' = Append(steps, "mx:throw")
  /\ pc' = "rejected"
  /\ UNCHANGED <<email, syntax, domain, domainValid, mx, disposable, roleBased,
                 catchAll, smtp, score, status, result, arg, ret, callerVars>>

\* line 192 when the catch-all probe throws
StepCatchAllThrows ==
  /\ pc = "catchAll"
  /\ domainValid
  /\ calls' = Append(calls, "simulateCatchAllDetection")
  /\ steps' = Append(steps, "catchAll:throw")
  /\ pc' = "rejected"
  /\ UNCHANGED <<email, syntax, domain, domainValid, mx, disposable, roleBased,
                 catchAll, smtp, score, status, result, arg, ret, callerVars>>

\* line 193 when the mailbox probe throws
StepSMTPThrows ==
  /\ pc = "smtp"
  /\ mx /\ ~disposable
  /\ calls' = Append(calls, "simulateSMTPCheck")
  /\ steps' = Append(steps, "smtp:throw")
  /\ pc' = "rejected"
  /\ UNCHANGED <<email, syntax, domain, domainValid, mx, disposable, roleBased,
                 catchAll, smtp, score, status, result, arg, ret, callerVars>>

\* lines 195-203
validationResults ==
  [syntax |-> syntax, domain |-> domainValid, mx |-> mx,
   disposable |-> disposable, roleBased |-> roleBased, catchAll |-> catchAll,
   smtp |-> smtp]

\* StepScore that classifies the raw sum instead of the normalised score
StepScore_StatusOfRaw ==
  /\ pc = "score"
  /\ score' = calculateEmailScore(validationResults)
  /\ status' = getEmailStatus(RawScore(validationResults))
  /\ steps' = Append(steps, "score")
  /\ pc' = Succ(pc)
  /\ UNCHANGED <<email, syntax, domain, domainValid, mx, disposable, roleBased,
                 catchAll, smtp, result, calls, arg, ret, callerVars>>

\* lines 205-206
StepScore ==
  /\ pc = "score"
  /\ score' = calculateEmailScore(validationResults)
  /\ status' = getEmailStatus(score')
  /\ steps' = Append(steps, "score")
  /\ pc' = Succ(pc)
  /\ UNCHANGED <<email, syntax, domain, domainValid, mx, disposable, roleBased,
                 catchAll, smtp, result, calls, arg, ret, callerVars>>

\* lines 208-213
StepReturn ==
  /\ pc = "return"
  /\ result' = [email |-> email, syntax |-> syntax, domain |-> domainValid,
                mx |-> mx, disposable |-> disposable, roleBased |-> roleBased,
                catchAll |-> catchAll, smtp |-> smtp, score |-> score,
                status |-> status]
  /\ steps' = Append(steps, "return")
  /\ pc' = Succ(pc)
  /\ UNCHANGED <<email, syntax, domain, domainValid, mx, disposable, roleBased,
                 catchAll, smtp, score, status, calls, arg, ret, callerVars>>

Next ==
  \/ StepSyntax
  \/ StepDomain
  \/ StepMX
  \/ StepDisposable
  \/ StepRoleBased
  \/ StepCatchAll
  \/ StepSMTP
  \/ StepScore
  \/ StepReturn

Spec == Init /\ [][Next]_vars

\* validateEmail with probes that may fail: the shipped probes never throw,
\* a probe doing real DNS or SMTP I/O can
NextFault ==
  \/ Next
  \/ StepMXThrows
  \/ StepCatchAllThrows
  \/ StepSMTPThrows

SpecFault == Init /\ [][NextFault]_vars

----------------------------------------------------------------------------
(* Properties of validateEmail                                             *)

Signals ==
  {"syntax", "domain", "mx", "disposable", "roleBased", "catchAll", "smtp"}

\* C1: whenever the syntax check returns false, the returned result has all
\* seven signals false, score 0 and status 'invalid'.
C1_ShortCircuit ==
  (pc = "done" /\ ~validateEmailSyntax(email)) =>
    /\ result.email = email
    /\ \A k \in Signals : result[k] = FALSE
    /\ result.score = 0
    /\ result.status = "invalid"

\* a rejected address that the later checks would have flagged
C1_Witness ==
  /\ pc = "done"
  /\ ~validateEmailSyntax(email)
  /\ isRoleBasedEmail(email) \/ isDisposableEmail(email) \/ validateDomain(email)
  /\ result.status = "invalid"

\* C2: in every returned result smtp = true implies mx = true and
\* disposable = false, whatever the mailbox probe answers.
C2_SmtpGate ==
  pc = "done" => (result.smtp => (result.mx /\ ~result.disposable))

\* a disposable address whose domain has mail exchange: smtp stays false
C2_Witness ==
  pc = "done" /\ result.mx /\ result.disposable /\ ~result.smtp

\* C3: in every returned result domain = false implies mx = false and
\* catchAll = false, whatever the MX and catch-all probes answer.
C3_DomainGate ==
  pc = "done" => (~result.domain => (~result.mx /\ ~result.catchAll))

\* an address that passes syntax and fails the domain check
C3_Witness ==
  pc = "done" /\ result.syntax /\ ~result.domain /\ ~result.mx /\ ~result.catchAll

\* C4: a probe is invoked only when its gate is open: none after a syntax
\* failure, MX and catch-all only if the domain check passed, the mailbox
\* probe only if mx is true and disposable is false.
C4_ProbeInvocation ==
  /\ ~syntax => calls = <<>>
  /\ "simulateMXCheck" \in Range(calls) => domainValid
  /\ "simulateCatchAllDetection" \in Range(calls) => domainValid
  /\ "simulateSMTPCheck" \in Range(calls) => (mx /\ ~disposable)

\* a finished run in which MX was probed and the mailbox probe was not
C4_Witness ==
  /\ pc = "done"
  /\ "simulateMXCheck" \in Range(calls)
  /\ "simulateSMTPCheck" \notin Range(calls)
  /\ mx /\ disposable

Before(a, b) ==
  \A i \in DOMAIN steps :
    steps[i] = b => \E j \in 1..(i - 1) : steps[j] = a

\* C5: on the full path the mailbox probe step comes strictly after the MX
\* step and the disposable step, and the score step strictly after the
\* steps of all seven signals.
C5_StepOrder ==
  /\ Before("mx", "smtp")
  /\ Before("disposable", "smtp")
  /\ \A k \in Signals : Before(k, "score")

\* a finished run of the full path
C5_Witness ==
  pc = "done" /\ "smtp" \in Range(steps) /\ "score" \in Range(steps)

----------------------------------------------------------------------------
(* The pure functions applied on their own: the argument is drawn in the   *)
(* initial state, one step applies the function.                           *)

\* the variables of validateEmail while no call is running
Idle ==
  /\ email = <<>>
  /\ syntax = FALSE
  /\ domain = Undefined
  /\ domainValid = FALSE
  /\ mx = FALSE
  /\ disposable = FALSE
  /\ roleBased = FALSE
  /\ catchAll = FALSE
  /\ smtp = FALSE
  /\ score = 0
  /\ status = ""
  /\ result = NoResult
  /\ calls = <<>>
  /\ steps = <<>>
  /\ CallersIdle

orchestratorVars ==
  <<email, syntax, domain, domainValid, mx, disposable, roleBased, catchAll,
    smtp, score, status, result, calls, steps>>

AllSignals ==
  [syntax : BOOLEAN, domain : BOOLEAN, mx : BOOLEAN, disposable : BOOLEAN,
   roleBased : BOOLEAN, catchAll : BOOLEAN, smtp : BOOLEAN]

InitScore == Idle /\ pc = "call" /\ arg \in AllSignals /\ ret = 0

ApplyScore ==
  /\ pc = "call"
  /\ ret' = calculateEmailScore(arg)
  /\ pc' = "return"
  /\ UNCHANGED <<arg, orchestratorVars, callerVars>>

NextScore == ApplyScore

SpecScore == InitScore /\ [][NextScore]_vars

InitStatus == Idle /\ pc = "call" /\ arg \in 0..MaxScore /\ ret = ""

ApplyStatus ==
  /\ pc = "call"
  /\ ret' = getEmailStatus(arg)
  /\ pc' = "return"
  /\ UNCHANGED <<arg, orchestratorVars, callerVars>>

NextStatus == ApplyStatus

SpecStatus == InitStatus /\ [][NextStatus]_vars

ToUpperChar(c) ==
  IF IsLower(c)
    THEN UpperLetters[CHOOSE i \in DOMAIN LowerLetters : LowerLetters[i] = c]
    ELSE c

toUpperCase(s) == [i \in 1..Len(s) |-> ToUpperChar(s[i])]

Capitalize(s) == [i \in 1..Len(s) |-> IF i = 1 THEN ToUpperChar(s[i]) ELSE s[i]]

LocalTails ==
  {
    <<>>,
    <<".","t","e","a","m">>,
    <<"-","b","o","t">>,
    <<"x">>,
    <<"i","s","t","r","a","t","o","r">>,
    <<"s">>,
    <<".">>,
    <<"-">>
  }

RoleLocals ==
  LET base == {q \o tl : q \in Range(roleBasedPrefixes), tl \in LocalTails}
  IN  base \cup {Capitalize(l) : l \in base} \cup {toUpperCase(l) : l \in base}

AtXCom == <<"@","x",".","c","o","m">>

RoleInputs ==
  ShortStrings \cup Malformed \cup RoleLocals \cup
  {l \o AtXCom : l \in RoleLocals \cup {<<"u","s","e","r">>, <<>>}}

InitRole == Idle /\ pc = "call" /\ arg \in RoleInputs /\ ret = FALSE

ApplyRole ==
  /\ pc = "call"
  /\ ret' = isRoleBasedEmail(arg)
  /\ pc' = "return"
  /\ UNCHANGED <<arg, orchestratorVars, callerVars>>

NextRole == ApplyRole

SpecRole == InitRole /\ [][NextRole]_vars

----------------------------------------------------------------------------
(* Properties of the scoring engine and the status classifier              *)

\* the sum of the stated contributions of the true signals
RefSum(v) ==
  (IF v.syntax THEN 20 ELSE 0) + (IF v.domain THEN 15 ELSE 0) +
  (IF v.mx THEN 15 ELSE 0) + (IF v.disposable THEN -10 ELSE 0) +
  (IF v.roleBased THEN -5 ELSE 0) + (IF v.catchAll THEN -5 ELSE 0) +
  (IF v.smtp THEN 25 ELSE 0)

RefClamp(x, lo, hi) == IF x < lo THEN lo ELSE IF x > hi THEN hi ELSE x

\* round(clamp(sum, 0, 75) / 75 * 100): the integer r with
\* r - 1/2 <= clamp * 100 / 75 < r + 1/2
RefScore(v) ==
  LET c == RefClamp(RefSum(v), 0, 75)
  IN  CHOOSE r \in 0..100 : 150 * r - 75 <= 200 * c /\ 200 * c < 150 * r + 75

\* C6: calculateEmailScore equals round(clamp(sum, 0, 75) / 75 * 100) for
\* all 128 combinations of the seven signals.
C6_ScoreFormula == pc = "return" => ret = RefScore(arg)

\* only syntax true: 20 / 75 * 100 = 26.67 rounds to 27
C6_Witness ==
  /\ pc = "return"
  /\ arg.syntax /\ ~arg.domain /\ ~arg.mx /\ ~arg.disposable
  /\ ~arg.roleBased /\ ~arg.catchAll /\ ~arg.smtp
  /\ ret = 27

\* C7: calculateEmailScore returns an integer in 0..100 for every
\* combination of the seven signals.
C7_ScoreRange == pc = "return" => ret \in 0..100

\* only the three negative-weight signals true: raw sum -20, score 0
C7_Witness ==
  /\ pc = "return"
  /\ ~arg.syntax /\ ~arg.domain /\ ~arg.mx /\ ~arg.smtp
  /\ arg.disposable /\ arg.roleBased /\ arg.catchAll
  /\ RawScore(arg) = -20
  /\ ret = 0

\* C8: getEmailStatus gives 'valid' for score >= 75, 'risky' for
\* 40 <= score < 75 and 'invalid' for score < 40, for every score 0..100.
C8_StatusBands ==
  pc = "return" =>
    /\ arg >= 75 => ret = "valid"
    /\ (40 <= arg /\ arg < 75) => ret = "risky"
    /\ arg < 40 => ret = "invalid"
    /\ arg = 74 => ret = "risky"
    /\ arg = 39 => ret = "invalid"

\* the lower edge of the 'valid' band
C8_Witness == pc = "return" /\ arg = 75 /\ ret = "valid"

----------------------------------------------------------------------------
(* Properties of the role account detector                                 *)

\* the substring before the first '@' (the whole string when there is none)
LocalOf(s) ==
  IF \E i \in 1..Len(s) : s[i] = "@"
    THEN SubSeq(s, 1, (CHOOSE i \in 1..Len(s) :
                         s[i] = "@" /\ \A j \in 1..(i - 1) : s[j] # "@") - 1)
    ELSE s

Administrator == <<"a","d","m","i","n","i","s","t","r","a","t","o","r">>

\* l is a listed prefix followed by one or more letters and nothing else
ExtendsWithLetters(l) ==
  \E i \in DOMAIN roleBasedPrefixes :
    LET q == roleBasedPrefixes[i]
    IN  /\ Len(l) > Len(q)
        /\ SubSeq(l, 1, Len(q)) = q
        /\ \A j \in (Len(q) + 1)..Len(l) : IsAlpha(l[j])

\* C9 as stated: isRoleBasedEmail returns false for administrator@x.com.
C9_Original ==
  (pc = "return" /\ arg = Administrator \o AtXCom) => ret = FALSE

\* C9 as amended: administrator@x.com is role-based because 'administrator'
\* is itself a listed prefix; a local part that extends a listed prefix with
\* letters only and is not itself a listed prefix is not role-based.
C9_Amended ==
  pc = "return" =>
    /\ arg = Administrator \o AtXCom => ret = TRUE
    /\ LET l == toLowerCase(LocalOf(arg))
       IN  (ExtendsWithLetters(l) /\ ~ListIncludes(roleBasedPrefixes, l))
             => ret = FALSE

\* adminx@x.com: 'admin' extended by a letter, not a listed prefix
C9_Witness ==
  /\ pc = "return"
  /\ arg = <<"a","d","m","i","n","x","@","x",".","c","o","m">>
  /\ ret = FALSE

\* the stated tri-mode match on the lower-cased substring before the first '@'
RefRole(s) ==
  LET l == toLowerCase(LocalOf(s))
  IN  \E q \in Range(roleBasedPrefixes) :
        \/ l = q
        \/ \E sep \in {".", "-"} :
             /\ Len(l) >= Len(q) + 1
             /\ SubSeq(l, 1, Len(q)) = q
             /\ l[Len(q) + 1] = sep

\* C10: isRoleBasedEmail returns true whenever the lower-cased substring
\* before the first '@' equals a listed prefix or starts with a listed prefix
\* followed by '.' or '-', and returns false when the local part is empty.
C10_RoleMatch ==
  pc = "return" =>
    /\ RefRole(arg) => ret = TRUE
    /\ LocalOf(arg) = <<>> => ret = FALSE
    /\ arg \in {<<"a","d","m","i","n","@","x",".","c","o","m">>, <<"A","d","m","i","n","@","x",".","c","o","m">>,
                <<"a","d","m","i","n",".","t","e","a","m","@","x",".","c","o","m">>,
                <<"a","d","m","i","n","-","b","o","t","@","x",".","c","o","m">>}
         => ret = TRUE

\* a capitalised role address is matched after lower-casing
C10_Witness ==
  /\ pc = "return"
  /\ arg = <<"A","d","m","i","n","@","x",".","c","o","m">>
  /\ ret = TRUE

----------------------------------------------------------------------------
(* The syntax check, the domain check and the disposable detector applied  *)
(* on their own; ret records which function ran and what it returned.      *)

\* a label of n letters
LongLabel(n) == [i \in 1..n |-> "a"]

CheckExtras ==
  {
    <<"a","@","m","a","i","l","i","n","a","t","o","r",".","c","o","m","@","b">>,
    <<"a","@","b","-",".","c","o","m">>,
    <<"u","s","e","r","@","l","o","c","a","l","h","o","s","t">>,
    <<"a","1","@","b","2",".","c","o">>,
    <<"a","@","b",".","c">>,
    <<"a","@","-","b",".","c","o","m">>,
    <<"a","_","b","+","c","@","x",".","c","o","m">>,
    <<"a","!","b","@","x",".","c","o","m">>,
    <<"a",".","@","x",".","c","o","m">>,
    <<"b",".","c","o","m">>,
    <<"m","a","i","l","i","n","a","t","o","r",".","c","o","m">>,
    <<"@","m","a","i","l","i","n","a","t","o","r",".","c","o","m">>,
    <<"u","s","e","r","@","@","m","a","i","l","i","n","a","t","o","r",".","c","o","m">>
  } \cup
  {<<"u", "@">> \o LongLabel(n) \o <<".", "c", "o", "m">> : n \in {63, 64}}

CheckInputs == Emails \cup CheckExtras

InitChecks == Idle /\ pc = "call" /\ arg \in CheckInputs /\ ret = [fn |-> "", value |-> FALSE]

ApplySyntax ==
  /\ pc = "call"
  /\ ret' = [fn |-> "validateEmailSyntax", value |-> validateEmailSyntax(arg)]
  /\ pc' = "return"
  /\ UNCHANGED <<arg, orchestratorVars, callerVars>>

ApplyDomain ==
  /\ pc = "call"
  /\ ret' = [fn |-> "validateDomain", value |-> validateDomain(arg)]
  /\ pc' = "return"
  /\ UNCHANGED <<arg, orchestratorVars, callerVars>>

ApplyDisposable ==
  /\ pc = "call"
  /\ ret' = [fn |-> "isDisposableEmail", value |-> isDisposableEmail(arg)]
  /\ pc' = "return"
  /\ UNCHANGED <<arg, orchestratorVars, callerVars>>

NextChecks == ApplySyntax \/ ApplyDomain \/ ApplyDisposable

SpecChecks == InitChecks /\ [][NextChecks]_vars

----------------------------------------------------------------------------
(* Properties of the disposable detector, the syntax and the domain check  *)

\* the number of '@' in s
CountAt(s) == Cardinality({i \in 1..Len(s) : s[i] = "@"})

\* the text after the first '@' (empty when there is none)
AfterFirstAt(s) ==
  IF CountAt(s) = 0 THEN <<>>
  ELSE LET i == CHOOSE k \in 1..Len(s) : s[k] = "@" /\ \A j \in 1..(k - 1) : s[j] # "@"
       IN  [k \in 1..(Len(s) - i) |-> s[i + k]]

\* the text after the last '@' (empty when there is none)
AfterLastAt(s) ==
  IF CountAt(s) = 0 THEN <<>>
  ELSE LET i == CHOOSE k \in 1..Len(s) : s[k] = "@" /\ \A j \in (k + 1)..Len(s) : s[j] # "@"
       IN  [k \in 1..(Len(s) - i) |-> s[i + k]]

InDenyList(d) == toLowerCase(d) \in Range(disposableDomains)

Returned(f) == pc = "return" /\ ret.fn = f

\* C11: for an address with exactly one '@', isDisposableEmail is true
\* exactly when the lower-cased domain is in the deny-list, whatever the
\* letter case; it is false when there is no domain.
C11_DisposableOneAt ==
  Returned("isDisposableEmail") =>
    /\ CountAt(arg) = 1 => (ret.value <=> InDenyList(AfterFirstAt(arg)))
    /\ (CountAt(arg) = 0 \/ AfterFirstAt(arg) = <<>>) => ret.value = FALSE
    /\ arg = <<"u","s","e","r","@","g","m","a","i","l",".","c","o","m">> => ret.value = FALSE

\* an upper-case spelling of a listed domain is detected
C11_Witness ==
  /\ Returned("isDisposableEmail")
  /\ arg = <<"u","s","e","r","@","M","A","I","L","I","N","A","T","O","R",".","C","O","M">>
  /\ ret.value = TRUE

\* C12: for every string, isDisposableEmail is true exactly when the text
\* after the last '@', lower-cased, is in the deny-list.
C12_Original ==
  Returned("isDisposableEmail") =>
    (ret.value <=> (CountAt(arg) >= 1 /\ InDenyList(AfterLastAt(arg))))

\* C13: for every string without '@', validateEmailSyntax returns false and
\* validateDomain returns false.
C13_NoAt ==
  (pc = "return" /\ ret.fn \in {"validateEmailSyntax", "validateDomain"}
     /\ CountAt(arg) = 0) => ret.value = FALSE

\* a well-formed domain name without '@' fails the domain check
C13_Witness ==
  /\ Returned("validateDomain")
  /\ arg = <<"b",".","c","o","m">>
  /\ ret.value = FALSE

\* the stated per-label rule: 1-63 characters, alphanumeric or hyphen, no
\* leading or trailing hyphen
RefLabel(l) ==
  /\ Len(l) \in 1..63
  /\ \A i \in 1..Len(l) : IsAlnum(l[i]) \/ l[i] = "-"
  /\ l[1] # "-"
  /\ l[Len(l)] # "-"

\* the stated domain rule on a whole domain string
RefDomain(d) ==
  LET labels == split(d, ".")
      last   == labels[Len(labels)]
  IN  /\ d # <<>>
      /\ \A i \in 1..Len(labels) : RefLabel(labels[i])
      /\ Len(last) >= 2
      /\ \A i \in 1..Len(last) : IsAlpha(last[i])

\* C15: validateDomain returns true exactly when the whole substring after
\* the first '@' satisfies the stated domain rule, for every input string.
C15_Original ==
  Returned("validateDomain") => (ret.value <=> RefDomain(AfterFirstAt(arg)))

LabelsOf(s) == split(AfterFirstAt(s), ".")

C14_OneAt ==
  /\ (pc # "syntax" /\ CountAt(email) >= 2) => (~syntax /\ pc = "done")
  /\ pc \in {"domain", "mx", "disposable", "roleBased", "catchAll", "smtp",
             "score", "return"} => CountAt(email) = 1
  /\ calls # <<>> => CountAt(email) = 1

\* an address with two '@' returned by the short-circuit
C14_Witness ==
  /\ pc = "done"
  /\ email = <<"a","@","b","@","m","a","i","l","i","n","a","t","o","r",".","c","o","m">>
  /\ steps = <<"syntax">>
  /\ result.status = "invalid"

----------------------------------------------------------------------------
(* Error handling of validateEmail                                         *)

ResultFields ==
  {"email", "syntax", "domain", "mx", "disposable", "roleBased", "catchAll",
   "smtp", "score", "status"}

\* C17: for malformed input (the empty string, a string without '@',
\* '@@double.com') validateEmail never rejects and resolves to a result with
\* all fields and status 'invalid'.
C17_MalformedResolves ==
  CountAt(email) # 1 =>
    /\ pc \in {"syntax", "done"}
    /\ pc = "done" =>
         /\ DOMAIN result = ResultFields
         /\ result.email = email
         /\ result.status = "invalid"

\* '@@double.com' resolved
C17_Witness ==
  /\ pc = "done"
  /\ email = <<"@","@","d","o","u","b","l","e",".","c","o","m">>
  /\ result.status = "invalid"
  /\ result.score = 0

ProbeThrew ==
  \E i \in DOMAIN steps : steps[i] \in {"mx:throw", "catchAll:throw", "smtp:throw"}

----------------------------------------------------------------------------
(* Bulk page: validateEmails, one step per await                           *)

\* most addresses in an uploaded file
MaxEmails == 2

\* processFile keeps only non-empty entries that contain '@', without duplicates
BulkPool ==
  {
    <<"u","s","e","r","@","x",".","c","o","m">>,
    <<"a","d","m","i","n","@","m","a","i","l","i","n","a","t","o","r",".","c","o","m">>,
    <<"a","@","b","@","c">>
  }

Files ==
  {[present |-> TRUE, emails |-> l] :
     l \in {q \in UNION {[1..n -> BulkPool] : n \in 1..MaxEmails} :
              \A a, b \in DOMAIN q : a # b => q[a] # q[b]}}

InitBulk ==
  /\ email = <<>>
  /\ pc = "idle"
  /\ syntax = FALSE
  /\ domain = Undefined
  /\ domainValid = FALSE
  /\ mx = FALSE
  /\ disposable = FALSE
  /\ roleBased = FALSE
  /\ catchAll = FALSE
  /\ smtp = FALSE
  /\ score = 0
  /\ status = ""
  /\ result = NoResult
  /\ calls = <<>>
  /\ steps = <<>>
  /\ arg = 0
  /\ ret = 0
  /\ uploadedFile \in {NoFile} \cup Files
  /\ isValidating = FALSE
  /\ validationProgress = 0
  /\ results = <<>>
  /\ bulkResults = <<>>
  /\ loopI = 0
  /\ bpc = "idle"
  /\ failed = {}
  /\ first = NoResult
  /\ probe = NoProbe
  /\ other = NoFrame
  /\ PageIdle

\* line 150: if (!uploadedFile) return
BulkRefuse ==
  /\ bpc = "idle"
  /\ ~uploadedFile.present
  /\ bpc' = "returned"
  /\ UNCHANGED <<email, pc, syntax, domain, domainValid, mx, disposable,
                 roleBased, catchAll, smtp, score, status, result, calls, steps,
                 arg, ret, uploadedFile, isValidating, validationProgress,
                 results, bulkResults, loopI, failed, first, probe, other,
                 validateVars>>

\* lines 152-156
BulkStart ==
  /\ bpc = "idle"
  /\ uploadedFile.present
  /\ isValidating' = TRUE
  /\ validationProgress' = 0
  /\ results' = <<>>
  /\ bulkResults' = <<>>
  /\ loopI' = 0
  /\ bpc' = "loop"
  /\ UNCHANGED <<email, pc, syntax, domain, domainValid, mx, disposable,
                 roleBased, catchAll, smtp, score, status, result, calls, steps,
                 arg, ret, uploadedFile, failed, first, probe, other,
                 validateVars>>

\* lines 159-163: the loop test, const email, the 50 ms delay
BulkDelay ==
  /\ bpc = "loop"
  /\ loopI < Len(uploadedFile.emails)
  /\ email' = uploadedFile.emails[loopI + 1]
  /\ bpc' = "call"
  /\ UNCHANGED <<pc, syntax, domain, domainValid, mx, disposable, roleBased,
                 catchAll, smtp, score, status, result, calls, steps, arg, ret,
                 uploadedFile, isValidating, validationProgress, results,
                 bulkResults, loopI, failed, first, probe, other,
                 validateVars>>

\* line 166: validateEmail(email) is entered
BulkCall ==
  /\ bpc = "call"
  /\ pc' = "syntax"
  /\ syntax' = FALSE
  /\ domain' = Undefined
  /\ domainValid' = FALSE
  /\ mx' = FALSE
  /\ disposable' = FALSE
  /\ roleBased' = FALSE
  /\ catchAll' = FALSE
  /\ smtp' = FALSE
  /\ score' = 0
  /\ status' = ""
  /\ result' = NoResult
  /\ calls' = <<>>
  /\ steps' = <<>>
  /\ bpc' = "await"
  /\ UNCHANGED <<email, arg, ret, uploadedFile, isValidating,
                 validationProgress, results, bulkResults, loopI, failed, first,
                 probe, other, validateVars>>

\* the record pushed by the catch of lines 168-181
FailedRecord(e) ==
  [email |-> e, syntax |-> FALSE, domain |-> FALSE, mx |-> FALSE,
   disposable |-> FALSE, roleBased |-> FALSE, catchAll |-> FALSE,
   smtp |-> FALSE, score |-> 0, status |-> "invalid"]

\* BulkRecord without the inner try/catch: a rejection reaches the outer catch
\* of lines 197-203 and ends the loop
BulkRecord_NoInnerCatch ==
  /\ bpc = "await"
  /\ pc \in {"done", "rejected"}
  /\ IF pc = "done"
       THEN /\ bulkResults' = Append(bulkResults, result)
            /\ validationProgress' =
                 MathRound((loopI + 1) * 100, Len(uploadedFile.emails))
            /\ results' = bulkResults'
            /\ loopI' = loopI + 1
            /\ bpc' = "loop"
            /\ UNCHANGED failed
       ELSE /\ failed' = failed \cup {loopI}
            /\ bpc' = "finish"
            /\ UNCHANGED <<bulkResults, validationProgress, results, loopI>>
  /\ pc' = "idle"
  /\ UNCHANGED <<email, syntax, domain, domainValid, mx, disposable, roleBased,
                 catchAll, smtp, score, status, result, calls, steps, arg, ret,
                 uploadedFile, isValidating, first, probe, other,
                 validateVars>>

\* BulkRecord with the progress computed from i instead of i + 1
BulkRecord_ProgressOfIndex ==
  /\ bpc = "await"
  /\ pc \in {"done", "rejected"}
  /\ bulkResults' =
       Append(bulkResults, IF pc = "done" THEN result ELSE FailedRecord(email))
  /\ failed' = IF pc = "rejected" THEN failed \cup {loopI} ELSE failed
  /\ validationProgress' = MathRound(loopI * 100, Len(uploadedFile.emails))
  /\ results' = bulkResults'
  /\ loopI' = loopI + 1
  /\ bpc' = "loop"
  /\ pc' = "idle"
  /\ UNCHANGED <<email, syntax, domain, domainValid, mx, disposable, roleBased,
                 catchAll, smtp, score, status, result, calls, steps, arg, ret,
                 uploadedFile, isValidating, first, probe, other,
                 validateVars>>

\* lines 165-184: the awaited call settles; push the result or the failed
\* record, set the progress and the results, i++
BulkRecord ==
  /\ bpc = "await"
  /\ pc \in {"done", "rejected"}
  /\ bulkResults' =
       Append(bulkResults, IF pc = "done" THEN result ELSE FailedRecord(email))
  /\ failed' = IF pc = "rejected" THEN failed \cup {loopI} ELSE failed
  /\ validationProgress' = MathRound((loopI + 1) * 100, Len(uploadedFile.emails))
  /\ results' = bulkResults'
  /\ loopI' = loopI + 1
  /\ bpc' = "loop"
  /\ pc' = "idle"
  /\ UNCHANGED <<email, syntax, domain, domainValid, mx, disposable, roleBased,
                 catchAll, smtp, score, status, result, calls, steps, arg, ret,
                 uploadedFile, isValidating, first, probe, other,
                 validateVars>>

\* line 159 when i reaches the length, lines 188-195: the counts and the toast
BulkToast ==
  /\ bpc = "loop"
  /\ loopI >= Len(uploadedFile.emails)
  /\ bpc' = "finish"
  /\ UNCHANGED <<email, pc, syntax, domain, domainValid, mx, disposable,
                 roleBased, catchAll, smtp, score, status, result, calls, steps,
                 arg, ret, uploadedFile, isValidating, validationProgress,
                 results, bulkResults, loopI, failed, first, probe, other,
                 validateVars>>

\* line 205
BulkFinish ==
  /\ bpc = "finish"
  /\ isValidating' = FALSE
  /\ bpc' = "finished"
  /\ UNCHANGED <<email, pc, syntax, domain, domainValid, mx, disposable,
                 roleBased, catchAll, smtp, score, status, result, calls, steps,
                 arg, ret, uploadedFile, validationProgress, results,
                 bulkResults, loopI, failed, first, probe, other,
                 validateVars>>

\* the bulk run over a validateEmail whose probes may fail
NextBulk ==
  \/ BulkRefuse
  \/ BulkStart
  \/ BulkDelay
  \/ BulkCall
  \/ NextFault
  \/ BulkRecord
  \/ BulkToast
  \/ BulkFinish

SpecBulk == InitBulk /\ [][NextBulk]_vars

\* C19: in a bulk run a rejected validateEmail does not abort the run: the
\* address is recorded as the all-false, score 0, 'invalid' record and every
\* later address is still validated and recorded.
C19_BulkContinues ==
  /\ \A k \in failed :
       /\ k + 1 <= Len(bulkResults)
       /\ bulkResults[k + 1] = FailedRecord(uploadedFile.emails[k + 1])
  /\ bpc \in {"finish", "finished"} =>
       /\ Len(results) = Len(uploadedFile.emails)
       /\ \A k \in DOMAIN results : results[k].email = uploadedFile.emails[k]

\* the first address failed, the second one was validated and recorded
C19_Witness ==
  /\ bpc = "finished"
  /\ failed = {0}
  /\ Len(results) = 2
  /\ results[1] = FailedRecord(uploadedFile.emails[1])
  /\ results[2].syntax

----------------------------------------------------------------------------
(* Two calls of validateEmail on one address with deterministic probes     *)

\* a deterministic probe: of the answers the probe can give for its
\* argument, always the same one
Fixed(answers, b) == IF b \in answers THEN b ELSE CHOOSE x \in answers : TRUE

TwiceEmails ==
  Malformed \cup {l \o <<"@">> \o d : l \in SampleLocals, d \in SampleDomains}

InitTwice ==
  /\ email \in TwiceEmails
  /\ pc = "syntax"
  /\ syntax = FALSE
  /\ domain = Undefined
  /\ domainValid = FALSE
  /\ mx = FALSE
  /\ disposable = FALSE
  /\ roleBased = FALSE
  /\ catchAll = FALSE
  /\ smtp = FALSE
  /\ score = 0
  /\ status = ""
  /\ result = NoResult
  /\ calls = <<>>
  /\ steps = <<>>
  /\ arg = 0
  /\ ret = 0
  /\ uploadedFile = NoFile
  /\ isValidating = FALSE
  /\ validationProgress = 0
  /\ results = <<>>
  /\ bulkResults = <<>>
  /\ loopI = 0
  /\ bpc = "idle"
  /\ failed = {}
  /\ first = NoResult
  /\ probe \in [mx : BOOLEAN, catchAll : BOOLEAN, smtp : BOOLEAN]
  /\ other = NoFrame
  /\ PageIdle

\* line 189 with a deterministic MX probe
DetStepMX ==
  /\ StepMX
  /\ domainValid => mx' = Fixed(simulateMXCheck(domain), probe.mx)

\* line 192 with a deterministic catch-all probe
DetStepCatchAll ==
  /\ StepCatchAll
  /\ domainValid => catchAll' = Fixed(simulateCatchAllDetection(domain), probe.catchAll)

\* line 193 with a deterministic mailbox probe
DetStepSMTP ==
  /\ StepSMTP
  /\ "simulateSMTPCheck" \in Range(calls') =>
       smtp' = Fixed(simulateSMTPCheck(email), probe.smtp)

\* validateEmail is called again on the same address: a new activation with
\* fresh locals; the first result is kept for comparison
CallAgain ==
  /\ pc = "done"
  /\ first = NoResult
  /\ first' = result
  /\ pc' = "syntax"
  /\ syntax' = FALSE
  /\ domain' = Undefined
  /\ domainValid' = FALSE
  /\ mx' = FALSE
  /\ disposable' = FALSE
  /\ roleBased' = FALSE
  /\ catchAll' = FALSE
  /\ smtp' = FALSE
  /\ score' = 0
  /\ status' = ""
  /\ result' = NoResult
  /\ calls' = <<>>
  /\ steps' = <<>>
  /\ UNCHANGED <<email, arg, ret, bulkVars, probe, other, validateVars>>

NextTwice ==
  \/ StepSyntax
  \/ StepDomain
  \/ DetStepMX
  \/ StepDisposable
  \/ StepRoleBased
  \/ DetStepCatchAll
  \/ DetStepSMTP
  \/ StepScore
  \/ StepReturn
  \/ CallAgain

SpecTwice == InitTwice /\ [][NextTwice]_vars

----------------------------------------------------------------------------
(* Two activations of validateEmail for different addresses. Every call of *)
(* the async function has its own parameter and its own consts (lines      *)
(* 169-206); the module holds no variable a call writes. The shipped body  *)
(* contains no await; with probes that do I/O the calls of lines 189, 192  *)
(* and 193 become await points. Control may pass to the other activation   *)
(* before any statement, which includes every such interleaving.           *)

\* the parameter and the consts of the running activation
Frame ==
  [email |-> email, pc |-> pc, syntax |-> syntax, domain |-> domain,
   domainValid |-> domainValid, mx |-> mx, disposable |-> disposable,
   roleBased |-> roleBased, catchAll |-> catchAll, smtp |-> smtp,
   score |-> score, status |-> status, result |-> result, calls |-> calls,
   steps |-> steps]

\* an activation not yet started on address e
NewFrame(e) == [NoFrame EXCEPT !.email = e, !.pc = "syntax"]

\* history: a frame suspended between two of its statements carries the
\* mark "await" in front of its steps
Suspended(f) ==
  IF f.steps # <<>> /\ f.pc # "done" /\ f.steps[1] # "await"
    THEN [f EXCEPT !.steps = <<"await">> \o f.steps]
    ELSE f

\* Switch with const domain declared at module level: both activations
\* write and read the one variable
Switch_SharedDomain ==
  /\ other.pc # "none"
  /\ email' = other.email
  /\ pc' = other.pc
  /\ syntax' = other.syntax
  /\ domain' = domain
  /\ domainValid' = other.domainValid
  /\ mx' = other.mx
  /\ disposable' = other.disposable
  /\ roleBased' = other.roleBased
  /\ catchAll' = other.catchAll
  /\ smtp' = other.smtp
  /\ score' = other.score
  /\ status' = other.status
  /\ result' = other.result
  /\ calls' = other.calls
  /\ steps' = other.steps
  /\ other' = Suspended(Frame)
  /\ UNCHANGED <<arg, ret, bulkVars, first, probe, validateVars>>

\* control passes from the running activation to the suspended one; each
\* keeps its own parameter and consts
Switch ==
  /\ other.pc # "none"
  /\ email' = other.email
  /\ pc' = other.pc
  /\ syntax' = other.syntax
  /\ domain' = other.domain
  /\ domainValid' = other.domainValid
  /\ mx' = other.mx
  /\ disposable' = other.disposable
  /\ roleBased' = other.roleBased
  /\ catchAll' = other.catchAll
  /\ smtp' = other.smtp
  /\ score' = other.score
  /\ status' = other.status
  /\ result' = other.result
  /\ calls' = other.calls
  /\ steps' = other.steps
  /\ other' = Suspended(Frame)
  /\ UNCHANGED <<arg, ret, bulkVars, first, probe, validateVars>>

InterleaveEmails ==
  {
    <<"u","s","e","r","@","x",".","c","o","m">>,
    <<"u","s","e","r","@","g","m","a","i","l",".","c","o","m">>,
    <<"a","d","m","i","n","@","m","a","i","l","i","n","a","t","o","r",".","c","o","m">>,
    <<"i","n","f","o","@","e","x","a","m","p","l","e",".","c","o","m">>,
    <<"n","o","-","a","t","-","s","i","g","n">>,
    <<"u","s","e","r","@","b","-",".","c","o","m">>
  }

InitInterleave ==
  /\ email \in InterleaveEmails
  /\ pc = "syntax"
  /\ syntax = FALSE
  /\ domain = Undefined
  /\ domainValid = FALSE
  /\ mx = FALSE
  /\ disposable = FALSE
  /\ roleBased = FALSE
  /\ catchAll = FALSE
  /\ smtp = FALSE
  /\ score = 0
  /\ status = ""
  /\ result = NoResult
  /\ calls = <<>>
  /\ steps = <<>>
  /\ arg = 0
  /\ ret = 0
  /\ uploadedFile = NoFile
  /\ isValidating = FALSE
  /\ validationProgress = 0
  /\ results = <<>>
  /\ bulkResults = <<>>
  /\ loopI = 0
  /\ bpc = "idle"
  /\ failed = {}
  /\ first = NoResult
  /\ probe \in [mx : BOOLEAN, catchAll : BOOLEAN, smtp : BOOLEAN]
  /\ other \in {NewFrame(e) : e \in InterleaveEmails \ {email}}
  /\ PageIdle

NextInterleave ==
  \/ StepSyntax
  \/ StepDomain
  \/ DetStepMX
  \/ StepDisposable
  \/ StepRoleBased
  \/ DetStepCatchAll
  \/ DetStepSMTP
  \/ StepScore
  \/ StepReturn
  \/ Switch

SpecInterleave == InitInterleave /\ [][NextInterleave]_vars

\* what validateEmail(e) returns when it is the only activation, the probes
\* answering as fixed in probe
RunAlone(e) ==
  IF ~validateEmailSyntax(e)
    THEN [email |-> e, syntax |-> FALSE, domain |-> FALSE, mx |-> FALSE,
          disposable |-> FALSE, roleBased |-> FALSE, catchAll |-> FALSE,
          smtp |-> FALSE, score |-> 0, status |-> "invalid"]
    ELSE
      LET d   == At(split(e, "@"), 1)
          dv  == validateDomain(e)
          m   == dv /\ Fixed(simulateMXCheck(d), probe.mx)
          dis == isDisposableEmail(e)
          rb  == isRoleBasedEmail(e)
          ca  == dv /\ Fixed(simulateCatchAllDetection(d), probe.catchAll)
          sm  == m /\ ~dis /\ Fixed(simulateSMTPCheck(e), probe.smtp)
          sc  == calculateEmailScore(
                   [syntax |-> TRUE, domain |-> dv, mx |-> m,
                    disposable |-> dis, roleBased |-> rb, catchAll |-> ca,
                    smtp |-> sm])
      IN  [email |-> e, syntax |-> TRUE, domain |-> dv, mx |-> m,
           disposable |-> dis, roleBased |-> rb, catchAll |-> ca, smtp |-> sm,
           score |-> sc, status |-> getEmailStatus(sc)]

----------------------------------------------------------------------------
(* The score and the status of given signals: calculateEmailScore followed *)
(* by getEmailStatus of its outcome, as lines 205-206 apply them.          *)

\* line 206 on the score just computed
ClassifyScore ==
  /\ pc = "return"
  /\ status' = getEmailStatus(ret)
  /\ pc' = "classified"
  /\ UNCHANGED <<email, syntax, domain, domainValid, mx, disposable, roleBased,
                 catchAll, smtp, score, result, calls, steps, arg, ret,
                 callerVars>>

NextVerdict ==
  \/ ApplyScore
  \/ ClassifyScore

SpecVerdict == InitScore /\ [][NextVerdict]_vars

PerfectSignals ==
  [syntax |-> TRUE, domain |-> TRUE, mx |-> TRUE, disposable |-> FALSE,
   roleBased |-> FALSE, catchAll |-> FALSE, smtp |-> TRUE]

\* C22: on syntax, domain, mx, smtp true and disposable, roleBased, catchAll
\* false calculateEmailScore returns 100 and getEmailStatus of it is 'valid'.
C22_PerfectScore ==
  arg = PerfectSignals =>
    /\ pc \in {"return", "classified"} => ret = 100
    /\ pc = "classified" => status = "valid"

\* the perfect signals scored and classified, from the raw sum 75
C22_Witness ==
  /\ pc = "classified"
  /\ arg = PerfectSignals
  /\ RawScore(arg) = 75
  /\ ret = 100
  /\ status = "valid"

OnlySyntax ==
  [syntax |-> TRUE, domain |-> FALSE, mx |-> FALSE, disposable |-> FALSE,
   roleBased |-> FALSE, catchAll |-> FALSE, smtp |-> FALSE]

\* the seven signals of a returned result
SignalsOf(r) ==
  [syntax |-> r.syntax, domain |-> r.domain, mx |-> r.mx,
   disposable |-> r.disposable, roleBased |-> r.roleBased,
   catchAll |-> r.catchAll, smtp |-> r.smtp]

\* C23: on the signals with only syntax true calculateEmailScore returns 27
\* and getEmailStatus of it is 'invalid'; an address that passes syntax,
\* fails the domain check and is neither disposable nor role-based gets
\* exactly these signals, this score and this status from validateEmail.
C23_OnlySyntax ==
  /\ (pc \in {"return", "done"} /\ validationResults = OnlySyntax) =>
       score = 27 /\ status = "invalid"
  /\ (pc = "done" /\ result.syntax /\ ~result.domain /\ ~result.disposable
        /\ ~result.roleBased) =>
       /\ SignalsOf(result) = OnlySyntax
       /\ result.score = 27
       /\ result.status = "invalid"

\* 'user@b-.com': the syntax check accepts it, the domain check does not
C23_Witness ==
  /\ pc = "done"
  /\ email = <<"u","s","e","r","@","b","-",".","c","o","m">>
  /\ SignalsOf(result) = OnlySyntax
  /\ result.score = 27
  /\ result.status = "invalid"

\* C24: every result validateEmail returns, on the short-circuit path and
\* on the full path and whatever the probes answer, has
\* score = calculateEmailScore(its seven signals) and
\* status = getEmailStatus(score).
C24_ResultConsistent ==
  pc = "done" =>
    /\ result.score = calculateEmailScore(SignalsOf(result))
    /\ result.status = getEmailStatus(result.score)

\* a full-path result whose raw sum and normalised score fall in different
\* bands: syntax, domain, mx, smtp and catchAll true, raw 70, score 93
C24_Witness ==
  /\ pc = "done"
  /\ Len(calls) = 3
  /\ result.smtp /\ result.catchAll
  /\ RawScore(SignalsOf(result)) = 70
  /\ result.score = 93
  /\ result.status = "valid"

\* C25: in every result validateEmail returns, status is 'valid' exactly
\* when smtp is true; so a 'valid' result has syntax, domain and mx true and
\* disposable false, and an address whose domain is on the disposable
\* deny-list is never 'valid', whatever the probes answer.
C25_ValidIffSmtp ==
  pc = "done" =>
    /\ result.status = "valid" <=> result.smtp
    /\ result.status = "valid" =>
         result.syntax /\ result.domain /\ result.mx /\ ~result.disposable
    /\ InDenyList(AfterLastAt(email)) => result.status # "valid"

\* a disposable address whose MX probe succeeded: the mailbox probe is not
\* asked and the result is not 'valid'
C25_Witness ==
  /\ pc = "done"
  /\ InDenyList(AfterLastAt(email))
  /\ result.mx
  /\ result.disposable
  /\ ~result.smtp
  /\ result.status = "risky"

\* C26: in every result validateEmail returns, domain = false implies status
\* 'invalid' with score at most 27, and mx = false implies a status other
\* than 'valid' with score at most 47.
C26_DomainMxBounds ==
  pc = "done" =>
    /\ ~result.domain => result.status = "invalid" /\ result.score <= 27
    /\ ~result.mx => result.status # "valid" /\ result.score <= 47

\* both limits are attained: domain true, MX probe answered false, score 47
C26_Witness ==
  /\ pc = "done"
  /\ result.domain
  /\ ~result.mx
  /\ calls[1] = "simulateMXCheck"
  /\ result.score = 47
  /\ result.status = "risky"

----------------------------------------------------------------------------
(* calculateEmailScore applied to two inputs that differ in one signal     *)

\* arg.v has signal arg.k false; the second input has it true
InitMono ==
  /\ Idle
  /\ pc = "call"
  /\ arg \in {a \in [v : AllSignals, k : Signals] : ~a.v[a.k]}
  /\ ret = [low |-> 0, high |-> 0]

ApplyLow ==
  /\ pc = "call"
  /\ ret' = [ret EXCEPT !.low = calculateEmailScore(arg.v)]
  /\ pc' = "call2"
  /\ UNCHANGED <<arg, orchestratorVars, callerVars>>

ApplyHigh ==
  /\ pc = "call2"
  /\ ret' = [ret EXCEPT !.high = calculateEmailScore([arg.v EXCEPT ![arg.k] = TRUE])]
  /\ pc' = "return"
  /\ UNCHANGED <<arg, orchestratorVars, callerVars>>

NextMono ==
  \/ ApplyLow
  \/ ApplyHigh

SpecMono == InitMono /\ [][NextMono]_vars

\* C27: for every combination of the other six signals, switching syntax,
\* domain, mx or smtp from false to true never lowers calculateEmailScore,
\* and switching disposable, roleBased or catchAll from false to true never
\* raises it.
C27_Monotone ==
  pc = "return" =>
    /\ arg.k \in {"syntax", "domain", "mx", "smtp"} => ret.high >= ret.low
    /\ arg.k \in {"disposable", "roleBased", "catchAll"} => ret.high <= ret.low

\* disposable switched on over syntax, domain and mx: 67 falls to 53
C27_Witness ==
  /\ pc = "return"
  /\ arg.k = "disposable"
  /\ arg.v.syntax /\ arg.v.domain /\ arg.v.mx /\ ~arg.v.smtp
  /\ ~arg.v.roleBased /\ ~arg.v.catchAll
  /\ ret.low = 67
  /\ ret.high = 53

----------------------------------------------------------------------------
(* Validate page: validateEmailAddress, one step per await. The layers     *)
(* array only feeds the rendering and is left out of the result record.    *)

\* layers.length (the array literal of lines 67-116)
NumLayers == 8

\* the addresses typed into the input
PagePool ==
  {
    <<>>,
    <<"u","s","e","r","@","x",".","c","o","m">>,
    <<"u","s","e","r","@","g","m","a","i","l",".","c","o","m">>,
    <<"a","d","m","i","n","@","m","a","i","l","i","n","a","t","o","r",".","c","o","m">>,
    <<"n","o","-","a","t","-","s","i","g","n">>
  }

\* lines 54-61: if (!email) { toast; return }
PageRefuse ==
  /\ ppc = "idle"
  /\ pageEmail = <<>>
  /\ ppc' = "returned"
  /\ UNCHANGED <<email, pc, syntax, domain, domainValid, mx, disposable,
                 roleBased, catchAll, smtp, score, status, result, calls, steps,
                 arg, ret, bulkVars, first, probe, other, pageEmail,
                 pageIsValidating, pageResult, layerI>>

\* lines 63-116
PageStart ==
  /\ ppc = "idle"
  /\ pageEmail # <<>>
  /\ pageIsValidating' = TRUE
  /\ pageResult' = NoResult
  /\ layerI' = 0
  /\ ppc' = "layers"
  /\ UNCHANGED <<email, pc, syntax, domain, domainValid, mx, disposable,
                 roleBased, catchAll, smtp, score, status, result, calls, steps,
                 arg, ret, bulkVars, first, probe, other, pageEmail>>

\* lines 119-138: one iteration, the delay and the intermediate setResult
PageLayer ==
  /\ ppc = "layers"
  /\ layerI < NumLayers - 1
  /\ pageResult' =
       [email |-> pageEmail, syntax |-> FALSE, domain |-> FALSE, mx |-> FALSE,
        disposable |-> FALSE, roleBased |-> FALSE, catchAll |-> FALSE,
        smtp |-> FALSE, score |-> MathRound((layerI + 1) * 100, NumLayers),
        status |-> "valid"]
  /\ layerI' = layerI + 1
  /\ UNCHANGED <<email, pc, syntax, domain, domainValid, mx, disposable,
                 roleBased, catchAll, smtp, score, status, result, calls, steps,
                 arg, ret, bulkVars, first, probe, other, pageEmail,
                 pageIsValidating, ppc>>

\* line 119 when i reaches layers.length - 1, line 142: validateEmail(email)
\* is entered
PageCall ==
  /\ ppc = "layers"
  /\ layerI >= NumLayers - 1
  /\ email' = pageEmail
  /\ pc' = "syntax"
  /\ syntax' = FALSE
  /\ domain' = Undefined
  /\ domainValid' = FALSE
  /\ mx' = FALSE
  /\ disposable' = FALSE
  /\ roleBased' = FALSE
  /\ catchAll' = FALSE
  /\ smtp' = FALSE
  /\ score' = 0
  /\ status' = ""
  /\ result' = NoResult
  /\ calls' = <<>>
  /\ steps' = <<>>
  /\ ppc' = "await"
  /\ UNCHANGED <<arg, ret, bulkVars, first, probe, other, pageEmail,
                 pageIsValidating, pageResult, layerI>>

\* PageSettle without the try/catch: a rejection leaves the handler before
\* line 183
PageSettle_NoCatch ==
  /\ ppc = "await"
  /\ pc \in {"done", "rejected"}
  /\ pageResult' = IF pc = "done" THEN result ELSE pageResult
  /\ ppc' = IF pc = "done" THEN "finish" ELSE "aborted"
  /\ pc' = "idle"
  /\ UNCHANGED <<email, syntax, domain, domainValid, mx, disposable, roleBased,
                 catchAll, smtp, score, status, result, calls, steps, arg, ret,
                 bulkVars, first, probe, other, pageEmail, pageIsValidating,
                 layerI>>

\* lines 141-181: the awaited call settles; setResult of what it returned,
\* or the catch, which leaves result as it is
PageSettle ==
  /\ ppc = "await"
  /\ pc \in {"done", "rejected"}
  /\ pageResult' = IF pc = "done" THEN result ELSE pageResult
  /\ ppc' = "finish"
  /\ pc' = "idle"
  /\ UNCHANGED <<email, syntax, domain, domainValid, mx, disposable, roleBased,
                 catchAll, smtp, score, status, result, calls, steps, arg, ret,
                 bulkVars, first, probe, other, pageEmail, pageIsValidating,
                 layerI>>

\* line 183
PageFinish ==
  /\ ppc = "finish"
  /\ pageIsValidating' = FALSE
  /\ ppc' = "finished"
  /\ UNCHANGED <<email, pc, syntax, domain, domainValid, mx, disposable,
                 roleBased, catchAll, smtp, score, status, result, calls, steps,
                 arg, ret, bulkVars, first, probe, other, pageEmail, pageResult,
                 layerI>>

----------------------------------------------------------------------------
(* The two pages. One route is mounted at a time; the handler of the other *)
(* page cannot run.                                                        *)

InitPages ==
  /\ email = <<>>
  /\ pc = "idle"
  /\ syntax = FALSE
  /\ domain = Undefined
  /\ domainValid = FALSE
  /\ mx = FALSE
  /\ disposable = FALSE
  /\ roleBased = FALSE
  /\ catchAll = FALSE
  /\ smtp = FALSE
  /\ score = 0
  /\ status = ""
  /\ result = NoResult
  /\ calls = <<>>
  /\ steps = <<>>
  /\ arg = 0
  /\ ret = 0
  /\ isValidating = FALSE
  /\ validationProgress = 0
  /\ results = <<>>
  /\ bulkResults = <<>>
  /\ loopI = 0
  /\ failed = {}
  /\ first = NoResult
  /\ probe = NoProbe
  /\ other = NoFrame
  /\ pageIsValidating = FALSE
  /\ pageResult = NoResult
  /\ layerI = 0
  /\ \/ /\ bpc = "idle"
        /\ uploadedFile \in {NoFile} \cup Files
        /\ ppc = "unmounted"
        /\ pageEmail = <<>>
     \/ /\ ppc = "idle"
        /\ pageEmail \in PagePool
        /\ bpc = "unmounted"
        /\ uploadedFile = NoFile

\* the steps the event loop takes on its own: timers fire, the awaited
\* validateEmail runs and settles, the handler resumes
Continue ==
  \/ BulkDelay
  \/ BulkCall
  \/ BulkRecord
  \/ BulkToast
  \/ BulkFinish
  \/ PageLayer
  \/ PageCall
  \/ PageSettle
  \/ PageFinish
  \/ NextFault

\* the user starts a run, or the event loop continues one
NextPages ==
  \/ PageRefuse
  \/ PageStart
  \/ BulkRefuse
  \/ BulkStart
  \/ Continue

\* every scheduled continuation is eventually run
SpecPages == InitPages /\ [][NextPages]_vars /\ WF_vars(Continue)

\* C28: every non-null result the validate page holds, the intermediate
\* ones and the one left in place after a rejection included, has
\* status = getEmailStatus(score).
C28_Original ==
  pageResult # NoResult => pageResult.status = getEmailStatus(pageResult.score)

\* C29: every validation run started on the validate page or on the bulk
\* page eventually sets isValidating back to false, whether validateEmail
\* resolves or rejects; a run refused up front (empty email, no uploaded
\* file) never sets isValidating to true
\* (isValidating ~> ~isValidating is the same as []<>~isValidating)
C29_ValidatingEnds ==
  /\ []<>(~pageIsValidating)
  /\ []<>(~isValidating)
  /\ [](ppc = "returned" => ~pageIsValidating)
  /\ [](bpc = "returned" => ~isValidating)

\* a validate-page run whose validateEmail call rejected and which still
\* reached line 183
C29_Witness ==
  /\ ppc = "finished"
  /\ ProbeThrew
  /\ ~pageIsValidating
  /\ pageResult.score = 88

\* C30: during a bulk run results is a prefix of the run in upload order:
\* after the i-th address is processed results has exactly i records with
\* results[k].email = emails[k] for every k < i; validationProgress never
\* decreases; when the run finishes results has one record per uploaded
\* address and validationProgress is 100.
C30_ResultsPrefix ==
  /\ [](bpc \in {"loop", "call", "await", "finish", "finished"} =>
          /\ Len(results) = loopI
          /\ Len(results) <= Len(uploadedFile.emails)
          /\ \A k \in DOMAIN results : results[k].email = uploadedFile.emails[k])
  /\ [][validationProgress' >= validationProgress]_vars
  /\ [](bpc \in {"finish", "finished"} =>
          /\ Len(results) = Len(uploadedFile.emails)
          /\ validationProgress = 100)

\* a run of two addresses after the first one: one record, progress 50,
\* the second call under way
C30_Witness ==
  /\ bpc = "await"
  /\ Len(uploadedFile.emails) = 2
  /\ loopI = 1
  /\ Len(results) = 1
  /\ results[1].email = uploadedFile.emails[1]
  /\ validationProgress = 50
  /\ pc = "done"

====
